---- MODULE Spec2Model ----
(***************************************************************************)
(* Authoritative Pong server (server/src/index.ts): the room registry, the *)
(* reverse index, the per-room interval timer and the socket handlers      *)
(* joinGame, paddleMove and disconnect, with the physics step updateBall.  *)
(*                                                                         *)
(* JavaScript objects are modelled with their identity: a Room lives in    *)
(* `heap` under an object id, `rooms` maps a room identifier to the object *)
(* id, and a running interval keeps the object id its closure captured.    *)
(* A Map is a function whose DOMAIN is the set of keys present.            *)
(*                                                                         *)
(* Spec starts the server with empty maps.  SpecRally starts it in the     *)
(* middle of a match, in states near the goal lines, the walls and the     *)
(* ends of the paddles' range that a run from the start reaches only after *)
(* hundreds of ticks and paddle steps.  Both run the same handlers.        *)
(* SpecUpdateBall is the function updateBall alone, applied once to a      *)
(* GameState drawn from a grid of argument values.                         *)
(***************************************************************************)
EXTENDS Integers, Sequences, FiniteSets, TLC

\* ---- Game constants (index.ts:18-24)
GAME_WIDTH == 800
GAME_HEIGHT == 400
PADDLE_WIDTH == 10
PADDLE_HEIGHT == 80
BALL_SIZE == 10
PADDLE_SPEED == 5
BALL_SPEED == 4

\* ---- Bounds of the model
NumConns == 3      \* sockets connected at one time
MaxPlayers == 3    \* cap on players.length (joinGame pushes without limit)
MaxTicks == 2      \* ticks a ball is followed for after a reset
MaxMoves == 1      \* paddle steps a room's paddles are followed away from 0, 160 and 320
MaxObjs == 2       \* Room objects alive at one time
MaxTimers == 2     \* intervals alive at one time
MaxEdge == 4       \* ticks from a wall or a goal line within which a ball is followed

\* socket.id of the connected sockets.  After its disconnect an id stands for
\* the next socket to connect: a disconnect leaves no trace of the old id in
\* the server's maps, so the fresh socket is indistinguishable from a new id.
Conns == 1..NumConns
\* `null` playerId and `undefined` gameLoop
Null == 0
Undefined == 0
\* the only room identifier joinGame ever uses
RoomIds == {"room1"}
ObjIds == 1..MaxObjs
Handles == 1..MaxTimers
\* the payload of paddleMove: 'up', 'down', or anything else a client sends
\* (the handler's parameter type is erased at run time); "sideways" stands
\* for every payload that is neither 'up' nor 'down'
Directions == {"up", "down", "sideways"}
NoData == "none"
\* playerRooms.get(socket.id) of a socket without an entry
NoRoom == "undefined"

VARIABLES
    heap,         \* object id -> Room {id, gameState, gameLoop}
    rooms,        \* Map<string, Room>: room id -> object id
    playerRooms,  \* Map<string, string>: socket id -> room id
    timers,       \* live intervals: {handle, roomId, room (captured object id)}
    ioRooms,      \* socket.io rooms: room id -> set of joined sockets
    emitted,      \* messages emitted by the latest handler, in order
    last          \* the latest event and the room its handler resolved

vars == <<heap, rooms, playerRooms, timers, ioRooms, emitted, last>>

\* ---- Map helpers (Map.set / Map.delete)
MapSet(m, k, v) == [x \in (DOMAIN m) \cup {k} |-> IF x = k THEN v ELSE m[x]]
MapDelete(m, k) == [x \in (DOMAIN m) \ {k} |-> m[x]]

\* Array.prototype.filter(id => id !== c)
RECURSIVE FilterOut(_, _)
FilterOut(s, c) ==
    IF s = <<>> THEN <<>>
    ELSE IF Head(s) = c THEN FilterOut(Tail(s), c)
         ELSE <<Head(s)>> \o FilterOut(Tail(s), c)

Range(s) == {s[i] : i \in DOMAIN s}
Abs(n) == IF n < 0 THEN -n ELSE n
Max(a, b) == IF a > b THEN a ELSE b
Min(a, b) == IF a < b THEN a ELSE b

\* ---- Numbers.
\* Every number of the server is a JavaScript number, an IEEE 754 double.
\* ball.x, ball.dx, the paddle offsets and the scores only ever hold small
\* integers, which doubles add and compare exactly: the model keeps them as
\* integers.  ball.y and ball.dy leave the integers with the first paddle hit,
\* and every later sum is rounded: the model keeps them as doubles
\* [s, m, e] of value s * m * 2^e, with sign s in {1, -1} and a mantissa m of
\* MantBits bits, written as a sequence of limbs of LimbBits bits, least
\* significant first; zero is [s |-> 1, m |-> <<>>, e |-> 0] (the server
\* never tells -0 from 0: they compare equal and both serialise as 0).

\* bits of a double's mantissa, the hidden bit included
MantBits == 53
Base == 2^15

RECURSIVE IntBits(_)
IntBits(n) == IF n = 0 THEN 0 ELSE 1 + IntBits(n \div 2)

LimbBits == IntBits(Base) - 1

\* natural numbers of any size, as sequences of limbs with no leading zero
RECURSIVE BNTrim(_)
BNTrim(a) ==
    IF a # <<>> /\ a[Len(a)] = 0 THEN BNTrim(SubSeq(a, 1, Len(a) - 1)) ELSE a

RECURSIVE BNFromInt(_)
BNFromInt(n) == IF n = 0 THEN <<>> ELSE <<n % Base>> \o BNFromInt(n \div Base)

Limb(a, i) == IF i <= Len(a) THEN a[i] ELSE 0

RECURSIVE BNAddFrom(_, _, _, _)
BNAddFrom(a, b, i, carry) ==
    IF i > Len(a) /\ i > Len(b)
    THEN (IF carry = 0 THEN <<>> ELSE <<carry>>)
    ELSE LET s == Limb(a, i) + Limb(b, i) + carry
         IN <<s % Base>> \o BNAddFrom(a, b, i + 1, s \div Base)

BNAdd(a, b) == BNAddFrom(a, b, 1, 0)

RECURSIVE BNSubFrom(_, _, _, _)
BNSubFrom(a, b, i, borrow) ==
    IF i > Len(a) THEN <<>>
    ELSE LET d == Limb(a, i) - Limb(b, i) - borrow
         IN IF d < 0 THEN <<d + Base>> \o BNSubFrom(a, b, i + 1, 1)
            ELSE <<d>> \o BNSubFrom(a, b, i + 1, 0)

\* a - b for a >= b
BNSub(a, b) == BNTrim(BNSubFrom(a, b, 1, 0))

RECURSIVE BNCmpFrom(_, _, _)
BNCmpFrom(a, b, i) ==
    IF i = 0 THEN 0
    ELSE IF a[i] < b[i] THEN -1
    ELSE IF a[i] > b[i] THEN 1
    ELSE BNCmpFrom(a, b, i - 1)

\* the sign of a - b
BNCmp(a, b) ==
    IF Len(a) < Len(b) THEN -1
    ELSE IF Len(a) > Len(b) THEN 1
    ELSE BNCmpFrom(a, b, Len(a))

RECURSIVE BNMulFrom(_, _, _, _)
BNMulFrom(a, k, i, carry) ==
    IF i > Len(a) THEN (IF carry = 0 THEN <<>> ELSE <<carry>>)
    ELSE LET p == a[i] * k + carry
         IN <<p % Base>> \o BNMulFrom(a, k, i + 1, p \div Base)

\* a * k for an integer 0 <= k < Base
BNMulSmall(a, k) == IF k = 0 THEN <<>> ELSE BNMulFrom(a, k, 1, 0)

\* long division by an integer 0 < k < Base, from the top limb down
RECURSIVE BNDivFrom(_, _, _, _)
BNDivFrom(a, k, i, rem) ==
    IF i = 0 THEN [q |-> <<>>, r |-> rem]
    ELSE LET n == rem * Base + a[i]
             rest == BNDivFrom(a, k, i - 1, n % k)
         IN [q |-> rest.q \o <<n \div k>>, r |-> rest.r]

BNDivSmall(a, k) == BNTrim(BNDivFrom(a, k, Len(a), 0).q)
BNModSmall(a, k) == BNDivFrom(a, k, Len(a), 0).r

\* a * 2^n
BNShl(a, n) ==
    IF a = <<>> THEN <<>>
    ELSE [i \in 1..(n \div LimbBits) |-> 0] \o BNMulSmall(a, 2^(n % LimbBits))

\* floor(a / 2^n)
BNShr(a, n) ==
    IF n \div LimbBits >= Len(a) THEN <<>>
    ELSE BNDivSmall(SubSeq(a, n \div LimbBits + 1, Len(a)), 2^(n % LimbBits))

BNBits(a) == IF a = <<>> THEN 0 ELSE LimbBits * (Len(a) - 1) + IntBits(a[Len(a)])

BNOdd(a) == a # <<>> /\ a[1] % 2 = 1

FZero == [s |-> 1, m |-> <<>>, e |-> 0]

\* a mantissa q that rounding up has carried to one bit more loses that bit
Normalised(s, q, e) ==
    IF BNBits(q) > MantBits
    THEN [s |-> s, m |-> BNShr(q, 1), e |-> e + 1]
    ELSE [s |-> s, m |-> q, e |-> e]

\* q is the kept part of the mantissa and c the sign of (the part cut off
\* minus half a unit of q): round to nearest, ties to the even mantissa
RoundedUp(s, q, e, c) ==
    Normalised(s, IF c > 0 \/ (c = 0 /\ BNOdd(q)) THEN BNAdd(q, <<1>>) ELSE q, e)

\* n has cut bits more than a mantissa holds; q is n without them
RoundedCut(s, n, e, cut, q) ==
    RoundedUp(s, q, e + cut, BNCmp(BNSub(n, BNShl(q, cut)), BNShl(<<1>>, cut - 1)))

\* n has len bits
RoundedBits(s, n, e, len) ==
    IF len <= MantBits
    THEN [s |-> s, m |-> BNShl(n, MantBits - len), e |-> e - (MantBits - len)]
    ELSE RoundedCut(s, n, e, len - MantBits, BNShr(n, len - MantBits))

\* the double nearest to s * n * 2^e, ties to the even mantissa: the rounding
\* of every arithmetic operation on numbers
Round(s, n, e) == IF n = <<>> THEN FZero ELSE RoundedBits(s, n, e, BNBits(n))

\* the double of an integer literal or an integer-valued field
FInt(n) == IF n < 0 THEN Round(-1, BNFromInt(-n), 0) ELSE Round(1, BNFromInt(n), 0)

\* the literal 0.5
FHalf == Round(1, <<1>>, -1)

\* -a
FNeg(a) == IF a.m = <<>> THEN a ELSE [a EXCEPT !.s = -a.s]

\* s * x * 2^e - s * y * 2^e, where c is the sign of x - y
FDifference(s, x, y, e, c) ==
    IF c = 0 THEN FZero
    ELSE IF c > 0 THEN Round(s, BNSub(x, y), e)
    ELSE Round(-s, BNSub(y, x), e)

\* sa * x * 2^e + sb * y * 2^e
FSum(sa, sb, x, y, e) ==
    IF sa = sb THEN Round(sa, BNAdd(x, y), e) ELSE FDifference(sa, x, y, e, BNCmp(x, y))

\* a + b for a and b that are not zero, e the smaller of their exponents
FAligned(a, b, e) == FSum(a.s, b.s, BNShl(a.m, a.e - e), BNShl(b.m, b.e - e), e)

\* a + b
FAdd(a, b) ==
    IF a.m = <<>> THEN b
    ELSE IF b.m = <<>> THEN a
    ELSE FAligned(a, b, Min(a.e, b.e))

\* a - b
FSub(a, b) == FAdd(a, FNeg(b))

\* a * k for an integer 0 < k < Base
FTimes(a, k) == Round(a.s, BNMulSmall(a.m, k), a.e)

\* s * n * 2^e / k: the quotient and one bit more that tells whether the
\* division left a remainder
FQuotient(s, n, e, k) ==
    Round(s, BNAdd(BNShl(BNDivSmall(n, k), 1),
                   IF BNModSmall(n, k) = 0 THEN <<>> ELSE <<1>>), e - 1)

\* a / k for an integer 0 < k < Base: the division is carried to 4 limbs
\* beyond the mantissa
FOver(a, k) ==
    IF a.m = <<>> THEN FZero
    ELSE FQuotient(a.s, BNShl(a.m, 4 * LimbBits), a.e - 4 * LimbBits, k)

\* the sign of a - b for a and b of one sign s that are not zero
FCmpAligned(a, b, e) == a.s * BNCmp(BNShl(a.m, a.e - e), BNShl(b.m, b.e - e))

\* the sign of a - b
FCmp(a, b) ==
    IF a.m = <<>> THEN (IF b.m = <<>> THEN 0 ELSE -b.s)
    ELSE IF b.m = <<>> THEN a.s
    ELSE IF a.s # b.s THEN a.s
    ELSE FCmpAligned(a, b, Min(a.e, b.e))

\* a <= b, a >= b
FLe(a, b) == FCmp(a, b) <= 0
FGe(a, b) == FCmp(a, b) >= 0

\* ---- The ball
\* Math.random() > 0.5 ? BALL_SPEED : -BALL_SPEED
RandomSpeed(r) == IF r THEN BALL_SPEED ELSE -BALL_SPEED

NewBall(rx, ry) ==
    [x |-> GAME_WIDTH \div 2, y |-> FInt(GAME_HEIGHT \div 2),
     dx |-> RandomSpeed(rx), dy |-> FInt(RandomSpeed(ry))]

createGameState(rx, ry) ==
    [ball |-> NewBall(rx, ry),
     paddles |-> [left  |-> [y |-> GAME_HEIGHT \div 2 - PADDLE_HEIGHT \div 2,
                             playerId |-> Null],
                  right |-> [y |-> GAME_HEIGHT \div 2 - PADDLE_HEIGHT \div 2,
                             playerId |-> Null]],
     score |-> [left |-> 0, right |-> 0],
     gameActive |-> FALSE,
     players |-> <<>>]

\* Mutant of resetBall: puts the ball back on the centre and keeps its velocity.
resetBallKeepsVelocity(gameState, rx, ry) ==
    [gameState EXCEPT !.ball.x = GAME_WIDTH \div 2,
                      !.ball.y = FInt(GAME_HEIGHT \div 2)]

resetBall(gameState, rx, ry) == [gameState EXCEPT !.ball = NewBall(rx, ry)]

\* ball.x += ball.dx; ball.y += ball.dy
MoveBall(ball) == [ball EXCEPT !.x = @ + ball.dx, !.y = FAdd(@, ball.dy)]

\* if (ball.y <= 0 || ball.y >= GAME_HEIGHT - BALL_SIZE) ball.dy = -ball.dy
WallBounce(ball) ==
    IF FLe(ball.y, FZero) \/ FGe(ball.y, FInt(GAME_HEIGHT - BALL_SIZE))
    THEN [ball EXCEPT !.dy = FNeg(ball.dy)]
    ELSE ball

\* ball.y >= paddle.y && ball.y <= paddle.y + PADDLE_HEIGHT
InPaddleSpan(ball, paddleY) ==
    /\ FGe(ball.y, FInt(paddleY))
    /\ FLe(ball.y, FInt(paddleY + PADDLE_HEIGHT))

\* hitPos = (ball.y - paddle.y) / PADDLE_HEIGHT;
\* ball.dy = (hitPos - 0.5) * BALL_SPEED * 2
HitAngle(ball, paddleY) ==
    LET hitPos == FOver(FSub(ball.y, FInt(paddleY)), PADDLE_HEIGHT)
    IN [ball EXCEPT !.dy = FTimes(FTimes(FSub(hitPos, FHalf), BALL_SPEED), 2)]

LeftPaddleBounce(ball, paddles) ==
    IF ball.x <= PADDLE_WIDTH /\ InPaddleSpan(ball, paddles.left.y)
    THEN HitAngle([ball EXCEPT !.dx = Abs(ball.dx)], paddles.left.y)
    ELSE ball

\* Mutant of RightPaddleBounce: the test of ball.x is left out.
RightPaddleBounceAnyX(ball, paddles) ==
    IF InPaddleSpan(ball, paddles.right.y)
    THEN HitAngle([ball EXCEPT !.dx = -Abs(ball.dx)], paddles.right.y)
    ELSE ball

RightPaddleBounce(ball, paddles) ==
    IF ball.x >= GAME_WIDTH - PADDLE_WIDTH - BALL_SIZE
       /\ InPaddleSpan(ball, paddles.right.y)
    THEN HitAngle([ball EXCEPT !.dx = -Abs(ball.dx)], paddles.right.y)
    ELSE ball

\* Mutant of Scoring: the goal lines themselves count as out of bounds.
ScoringAtLine(gameState, rx, ry) ==
    IF gameState.ball.x <= 0
    THEN resetBall([gameState EXCEPT !.score.right = @ + 1], rx, ry)
    ELSE IF gameState.ball.x >= GAME_WIDTH
         THEN resetBall([gameState EXCEPT !.score.left = @ + 1], rx, ry)
         ELSE gameState

\* scoring: x < 0 gives the right side a point, x > GAME_WIDTH the left side
Scoring(gameState, rx, ry) ==
    IF gameState.ball.x < 0
    THEN resetBall([gameState EXCEPT !.score.right = @ + 1], rx, ry)
    ELSE IF gameState.ball.x > GAME_WIDTH
         THEN resetBall([gameState EXCEPT !.score.left = @ + 1], rx, ry)
         ELSE gameState

\* does this tick end in resetBall, the only place updateBall draws random signs
Scores(gameState) ==
    LET b1 == WallBounce(MoveBall(gameState.ball))
        b2 == LeftPaddleBounce(b1, gameState.paddles)
        b3 == RightPaddleBounce(b2, gameState.paddles)
    IN b3.x < 0 \/ b3.x > GAME_WIDTH

updateBall(gameState, rx, ry) ==
    LET b1 == WallBounce(MoveBall(gameState.ball))
        b2 == LeftPaddleBounce(b1, gameState.paddles)
        b3 == RightPaddleBounce(b2, gameState.paddles)
    IN Scoring([gameState EXCEPT !.ball = b3], rx, ry)

\* ---- The server's mutable world, threaded through a handler:
\* [heap, rooms, playerRooms, timers, ioRooms, out]
World ==
    [heap |-> heap, rooms |-> rooms, playerRooms |-> playerRooms,
     timers |-> timers, ioRooms |-> ioRooms, out |-> <<>>]

Msg(event, to, data) == [event |-> event, to |-> to, data |-> data]

\* socket.emit(event, data): to this socket only
socketEmit(W, c, event, data) ==
    [W EXCEPT !.out = Append(@, Msg(event, {c}, data))]

\* io.to(roomId).emit(event, data): to every socket joined to the room
roomEmit(W, roomId, event, data) ==
    [W EXCEPT !.out = Append(@, Msg(event, W.ioRooms[roomId], data))]

\* rooms.get(roomId)
HasRoom(W, roomId) == roomId \in DOMAIN W.rooms
GetRoom(W, roomId) == W.heap[W.rooms[roomId]]

LiveHandles(ts) == {t.handle : t \in ts}
FreeHandles(ts) == Handles \ LiveHandles(ts)
FreeObjs(h) == ObjIds \ DOMAIN h
Least(S) == CHOOSE n \in S : \A m \in S : n <= m

\* room.gameLoop = setInterval(() => {...}, 1000 / 60): the new interval
\* captures the Room object; an earlier handle in room.gameLoop is overwritten
\* and its interval keeps running.
startGameLoop(W, roomId) ==
    IF ~HasRoom(W, roomId) THEN W
    ELSE LET o == W.rooms[roomId]
             h == Least(FreeHandles(W.timers))
         IN [W EXCEPT !.heap[o].gameLoop = h,
                      !.timers = @ \cup {[handle |-> h, roomId |-> roomId,
                                          room |-> o]}]

\* Mutant of stopGameLoop: forgets the handle without clearInterval.
stopGameLoopNoClear(W, roomId) ==
    IF HasRoom(W, roomId) /\ GetRoom(W, roomId).gameLoop # Undefined
    THEN [W EXCEPT !.heap[W.rooms[roomId]].gameLoop = Undefined]
    ELSE W

\* if (room && room.gameLoop) { clearInterval(room.gameLoop);
\*                              room.gameLoop = undefined; }
stopGameLoop(W, roomId) ==
    IF HasRoom(W, roomId) /\ GetRoom(W, roomId).gameLoop # Undefined
    THEN LET o == W.rooms[roomId]
             h == W.heap[o].gameLoop
         IN [W EXCEPT !.timers = {t \in @ : t.handle # h},
                      !.heap[o].gameLoop = Undefined]
    ELSE W

\* A Room object nobody references any more is collected.
Collect(W) ==
    LET live == {W.rooms[r] : r \in DOMAIN W.rooms} \cup {t.room : t \in W.timers}
    IN [W EXCEPT !.heap = [o \in (DOMAIN W.heap) \cap live |-> W.heap[o]]]

\* ---- socket.on('joinGame')
\* rooms.get(roomId), or a new Room from createGameState()
joinResolveRoom(W, roomId, rx, ry) ==
    IF HasRoom(W, roomId) THEN W
    ELSE LET o == Least(FreeObjs(W.heap))
         IN [W EXCEPT !.heap = MapSet(@, o, [id |-> roomId,
                                             gameState |-> createGameState(rx, ry),
                                             gameLoop |-> Undefined]),
                      !.rooms = MapSet(@, roomId, o)]

\* socket.join(roomId); playerRooms.set(socket.id, roomId);
\* room.gameState.players.push(socket.id)
joinAddPlayer(W, c, roomId) ==
    LET o == W.rooms[roomId]
    IN [W EXCEPT !.ioRooms[roomId] = @ \cup {c},
                 !.playerRooms = MapSet(@, c, roomId),
                 !.heap[o].gameState.players = Append(@, c)]

\* Mutant of joinAssignPaddle: tries the right slot before the left one.
joinAssignPaddleRightFirst(W, c, roomId) ==
    LET o == W.rooms[roomId]
        paddles == W.heap[o].gameState.paddles
    IN IF paddles.right.playerId = Null
       THEN socketEmit([W EXCEPT !.heap[o].gameState.paddles.right.playerId = c],
                       c, "paddleAssignment", "right")
       ELSE IF paddles.left.playerId = Null
            THEN socketEmit([W EXCEPT !.heap[o].gameState.paddles.left.playerId = c],
                            c, "paddleAssignment", "left")
            ELSE W

\* left if left is free, else right if right is free, else nothing
joinAssignPaddle(W, c, roomId) ==
    LET o == W.rooms[roomId]
        paddles == W.heap[o].gameState.paddles
    IN IF paddles.left.playerId = Null
       THEN socketEmit([W EXCEPT !.heap[o].gameState.paddles.left.playerId = c],
                       c, "paddleAssignment", "left")
       ELSE IF paddles.right.playerId = Null
            THEN socketEmit([W EXCEPT !.heap[o].gameState.paddles.right.playerId = c],
                            c, "paddleAssignment", "right")
            ELSE W

\* if (room.gameState.players.length === 2) { gameActive = true;
\*   startGameLoop(roomId); io.to(roomId).emit('gameStart'); }
joinStartGame(W, roomId) ==
    LET o == W.rooms[roomId]
    IN IF Len(W.heap[o].gameState.players) = 2
       THEN roomEmit(startGameLoop([W EXCEPT !.heap[o].gameState.gameActive = TRUE],
                                   roomId),
                     roomId, "gameStart", NoData)
       ELSE W

joinGame(W, c, rx, ry) ==
    LET roomId == "room1"
        W1 == joinResolveRoom(W, roomId, rx, ry)
        W2 == joinAddPlayer(W1, c, roomId)
        W3 == joinAssignPaddle(W2, c, roomId)
        W4 == joinStartGame(W3, roomId)
    IN socketEmit(W4, c, "gameState", GetRoom(W4, roomId).gameState)

\* ---- socket.on('paddleMove')
\* Mutant of OwnedSide: whoever does not own the left paddle moves the right one.
OwnedSideDefaultRight(paddles, c) ==
    IF paddles.left.playerId = c THEN "left" ELSE "right"

\* the paddle this socket owns: "left", "right" or "none"
OwnedSide(paddles, c) ==
    IF paddles.left.playerId = c THEN "left"
    ELSE IF paddles.right.playerId = c THEN "right"
    ELSE "none"

\* Mutant of MovedY: steps without the range test and the clamp.
MovedYNoClamp(y, direction) ==
    IF direction = "up" THEN y - PADDLE_SPEED
    ELSE IF direction = "down" THEN y + PADDLE_SPEED
         ELSE y

\* if (direction === 'up' && paddle.y > 0) Math.max(0, y - PADDLE_SPEED)
\* else if (direction === 'down' && paddle.y < GAME_HEIGHT - PADDLE_HEIGHT)
\*   Math.min(GAME_HEIGHT - PADDLE_HEIGHT, y + PADDLE_SPEED)
MovedY(y, direction) ==
    IF direction = "up" /\ y > 0 THEN Max(0, y - PADDLE_SPEED)
    ELSE IF direction = "down" /\ y < GAME_HEIGHT - PADDLE_HEIGHT
         THEN Min(GAME_HEIGHT - PADDLE_HEIGHT, y + PADDLE_SPEED)
         ELSE y

\* Mutant of paddleMove: paddleUpdate is broadcast only when the offset changed.
paddleMoveQuietAtEnd(W, c, direction) ==
    IF c \notin DOMAIN W.playerRooms THEN W
    ELSE LET roomId == W.playerRooms[c]
         IN IF ~HasRoom(W, roomId) THEN W
            ELSE LET o == W.rooms[roomId]
                     paddles == W.heap[o].gameState.paddles
                     side == OwnedSide(paddles, c)
                 IN IF side = "none" THEN W
                    ELSE LET y == MovedY(paddles[side].y, direction)
                         IN IF y = paddles[side].y THEN W
                            ELSE roomEmit([W EXCEPT !.heap[o].gameState.paddles[side].y = y],
                                          roomId, "paddleUpdate",
                                          [side |-> side, y |-> y])

paddleMove(W, c, direction) ==
    IF c \notin DOMAIN W.playerRooms THEN W
    ELSE LET roomId == W.playerRooms[c]
         IN IF ~HasRoom(W, roomId) THEN W
            ELSE LET o == W.rooms[roomId]
                     paddles == W.heap[o].gameState.paddles
                     side == OwnedSide(paddles, c)
                 IN IF side = "none" THEN W
                    ELSE LET y == MovedY(paddles[side].y, direction)
                         IN roomEmit([W EXCEPT !.heap[o].gameState.paddles[side].y = y],
                                     roomId, "paddleUpdate",
                                     [side |-> IF paddles.left.playerId = c
                                               THEN "left" ELSE "right",
                                      y |-> y])

\* ---- socket.on('disconnect')
\* players.filter(id => id !== socket.id) and the paddle slots it held
disconnectRemovePlayer(W, c, roomId) ==
    LET o == W.rooms[roomId]
        gs == W.heap[o].gameState
    IN [W EXCEPT !.heap[o].gameState =
           [gs EXCEPT !.players = FilterOut(@, c),
                      !.paddles.left.playerId = IF @ = c THEN Null ELSE @,
                      !.paddles.right.playerId = IF @ = c THEN Null ELSE @]]

\* Mutant of disconnectStopGame: the game is paused with its loop left running.
disconnectPauseNoStop(W, roomId) ==
    LET o == W.rooms[roomId]
    IN IF Len(W.heap[o].gameState.players) = 0
       THEN LET W1 == stopGameLoop(W, roomId)
            IN [W1 EXCEPT !.rooms = MapDelete(@, roomId)]
       ELSE roomEmit([W EXCEPT !.heap[o].gameState.gameActive = FALSE],
                     roomId, "playerDisconnected", NoData)

\* Mutant of disconnectStopGame: an emptied room is deleted with its loop running.
disconnectDeleteNoStop(W, roomId) ==
    LET o == W.rooms[roomId]
    IN IF Len(W.heap[o].gameState.players) = 0
       THEN [W EXCEPT !.rooms = MapDelete(@, roomId)]
       ELSE roomEmit(stopGameLoop([W EXCEPT !.heap[o].gameState.gameActive = FALSE],
                                  roomId),
                     roomId, "playerDisconnected", NoData)

\* Mutant of disconnectStopGame: an emptied room is stopped but not deleted.
disconnectStopGameNoDelete(W, roomId) ==
    LET o == W.rooms[roomId]
    IN IF Len(W.heap[o].gameState.players) = 0
       THEN stopGameLoop(W, roomId)
       ELSE roomEmit(stopGameLoop([W EXCEPT !.heap[o].gameState.gameActive = FALSE],
                                  roomId),
                     roomId, "playerDisconnected", NoData)

\* players.length === 0: stop and delete; otherwise pause and tell the others
disconnectStopGame(W, roomId) ==
    LET o == W.rooms[roomId]
    IN IF Len(W.heap[o].gameState.players) = 0
       THEN LET W1 == stopGameLoop(W, roomId)
            IN [W1 EXCEPT !.rooms = MapDelete(@, roomId)]
       ELSE roomEmit(stopGameLoop([W EXCEPT !.heap[o].gameState.gameActive = FALSE],
                                  roomId),
                     roomId, "playerDisconnected", NoData)

\* Mutant of disconnect: the reverse-index entry is left behind.
disconnectKeepsIndex(W, c) ==
    IF c \notin DOMAIN W.playerRooms THEN W
    ELSE LET roomId == W.playerRooms[c]
         IN IF HasRoom(W, roomId)
            THEN disconnectStopGame(disconnectRemovePlayer(W, c, roomId), roomId)
            ELSE W

\* Mutant of disconnect: a socket without an entry is taken to be in room1.
disconnectDefaultRoom(W, c) ==
    LET roomId == IF c \in DOMAIN W.playerRooms THEN W.playerRooms[c] ELSE "room1"
        W1 == IF HasRoom(W, roomId)
              THEN disconnectStopGame(disconnectRemovePlayer(W, c, roomId), roomId)
              ELSE W
    IN [W1 EXCEPT !.playerRooms = MapDelete(@, c)]

disconnect(W, c) ==
    IF c \notin DOMAIN W.playerRooms THEN W
    ELSE LET roomId == W.playerRooms[c]
             W1 == IF HasRoom(W, roomId)
                   THEN disconnectStopGame(disconnectRemovePlayer(W, c, roomId),
                                           roomId)
                   ELSE W
         IN [W1 EXCEPT !.playerRooms = MapDelete(@, c)]

\* ---- the interval callback of startGameLoop
\* updateBall(room.gameState); io.to(roomId).emit('gameState', room.gameState)
tick(W, t, rx, ry) ==
    LET gs == updateBall(W.heap[t.room].gameState, rx, ry)
    IN roomEmit([W EXCEPT !.heap[t.room].gameState = gs],
                t.roomId, "gameState", gs)

\* ---- Actions
\* A socket id the server holds no trace of.  Such ids are interchangeable
\* (socket.io draws them at random), so the next new socket takes the least.
Known(c) ==
    \/ c \in DOMAIN playerRooms
    \/ \E r \in RoomIds : c \in ioRooms[r]
    \/ \E o \in DOMAIN heap :
          \/ c \in Range(heap[o].gameState.players)
          \/ c = heap[o].gameState.paddles.left.playerId
          \/ c = heap[o].gameState.paddles.right.playerId

Sockets == {c \in Conns : Known(c) \/ \A d \in Conns : d < c => Known(d)}

\* How far the model follows a room: the ball's distance from the centre line
\* in ticks, and the paddles' distance in steps from the nearest of the start
\* offset and the two ends of their range.
BallTravel(gameState) ==
    Abs(gameState.ball.x - GAME_WIDTH \div 2) \div BALL_SPEED

PaddleAway(y) ==
    Min(Abs(y - (GAME_HEIGHT \div 2 - PADDLE_HEIGHT \div 2)),
        Min(Abs(y), Abs(GAME_HEIGHT - PADDLE_HEIGHT - y)))

PaddleTravel(gameState) ==
    (PaddleAway(gameState.paddles.left.y) + PaddleAway(gameState.paddles.right.y))
    \div PADDLE_SPEED

\* The ball is followed near the centre line (after a reset), near the two
\* goal lines and near the top and bottom walls.
NearCentre(gameState) == BallTravel(gameState) < MaxTicks

NearGoal(gameState) ==
    BallTravel(gameState) >= (GAME_WIDTH \div 2) \div BALL_SPEED - MaxEdge

\* heading for the top or the bottom wall, at most MaxEdge ticks of a served
\* ball away from it
NearWall(gameState) ==
    LET ball == gameState.ball
    IN \/ ball.dy.s < 0 /\ FLe(ball.y, FInt(MaxEdge * BALL_SPEED))
       \/ /\ ball.dy.s > 0 /\ ball.dy # FZero
          /\ FGe(ball.y, FInt(GAME_HEIGHT - BALL_SIZE - MaxEdge * BALL_SPEED))

Followed(gameState) ==
    NearCentre(gameState) \/ NearGoal(gameState) \/ NearWall(gameState)

Commit(W) ==
    LET C == Collect(W)
    IN /\ heap' = C.heap
       /\ rooms' = C.rooms
       /\ playerRooms' = C.playerRooms
       /\ timers' = C.timers
       /\ ioRooms' = C.ioRooms
       /\ emitted' = C.out

Event(name, roomId) == [event |-> name, roomId |-> roomId]

\* const roomId = playerRooms.get(socket.id)
ResolvedRoom(c) == IF c \in DOMAIN playerRooms THEN playerRooms[c] ELSE NoRoom

Init ==
    /\ heap = <<>>
    /\ rooms = [r \in {} |-> 0]
    /\ playerRooms = <<>>
    /\ timers = {}
    /\ ioRooms = [r \in RoomIds |-> {}]
    /\ emitted = <<>>
    /\ last = Event("listen", NoRoom)

JoinGame(c) ==
    /\ c \in Sockets
    /\ \A r \in DOMAIN rooms : Len(heap[rooms[r]].gameState.players) < MaxPlayers
    /\ IF DOMAIN rooms = {} THEN FreeObjs(heap) # {} ELSE TRUE
    /\ FreeHandles(timers) # {}
    /\ \E rx, ry \in (IF DOMAIN rooms = {} THEN BOOLEAN ELSE {TRUE}) :
          Commit(joinGame(World, c, rx, ry))
    /\ last' = Event("joinGame", "room1")

PaddleMove(c, direction) ==
    /\ c \in Sockets
    /\ LET W == paddleMove(World, c, direction)
       IN /\ \A o \in DOMAIN W.heap : PaddleTravel(W.heap[o].gameState) <= MaxMoves
          /\ Commit(W)
    /\ last' = Event("paddleMove", ResolvedRoom(c))

\* socket.io takes the socket out of its rooms before it fires 'disconnect'
Disconnect(c) ==
    /\ c \in Sockets
    /\ Commit(disconnect([World EXCEPT
                 !.ioRooms = [r \in RoomIds |-> ioRooms[r] \ {c}]], c))
    /\ last' = Event("disconnect", ResolvedRoom(c))

Tick(t) ==
    /\ t \in timers
    /\ Followed(heap[t.room].gameState)
    /\ \E rx, ry \in (IF Scores(heap[t.room].gameState) THEN BOOLEAN ELSE {TRUE}) :
          Commit(tick(World, t, rx, ry))
    /\ last' = Event("tick", t.roomId)

Next ==
    \/ \E c \in Conns : JoinGame(c)
    \/ \E c \in Conns, d \in Directions : PaddleMove(c, d)
    \/ \E c \in Conns : Disconnect(c)
    \/ \E t \in timers : Tick(t)

Spec == Init /\ [][Next]_vars

\* ---- A match in progress
\* States of a running match, each the state right after a tick of the run
\* of the server given with it.  Sockets 1 and 2 have joined, in this order,
\* and the first ball was served with the signs given; "L n" / "R n" is the
\* offset the left / right player has stepped its paddle to before the tick
\* named (160 unless given), "tick k" the k-th tick of the match.
Input(x, y, dx, dy, l, r, sl, sr) ==
    [ball |-> [x |-> x, y |-> FInt(y), dx |-> dx, dy |-> FInt(dy)],
     left |-> l, right |-> r, score |-> [left |-> sl, right |-> sr]]

RallyInputs ==
    { \* serve (+4, -4), R 200 before tick 95, after tick 99: the next tick
      \* takes the ball to x = 800, y = 200, the upper end of the right paddle
      Input(796, 196, 4, 4, 160, 200, 0, 0),
      \* serve (+4, -4), R 195 before tick 95, after tick 98: the next tick
      \* takes the ball to x = 796, y = 196, one unit below the paddle's end
      Input(792, 192, 4, 4, 160, 195, 0, 0),
      \* serve (+4, -4), R 80 before tick 95, after tick 99: the ball passes
      \* the right paddle
      Input(796, 196, 4, 4, 160, 80, 0, 0),
      \* serve (+4, -4), after tick 49: the ball reaches the top wall
      Input(596, 4, 4, -4, 160, 160, 0, 0),
      \* serve (+4, -4), R 200 before tick 95, R 190 between ticks 99 and 100
      \* (the paddle returns the ball at x = 800, y = 200 with dy = -3), R 200
      \* again before tick 101, L 80 or L 315 before tick 298, after tick 297:
      \* the ball comes down on the left goal line at the bottom wall; the
      \* left paddle is away, or waits in the corner
      Input(12, 389, -4, 3, 80, 200, 0, 0),
      Input(12, 389, -4, 3, 315, 200, 0, 0),
      \* serve (-4, -4), L 320 and R 0 before tick 98, after tick 101: the
      \* ball has passed the left paddle, the tick has scored for the right
      \* side and served again
      Input(400, 200, 4, 4, 320, 0, 0, 1) }

RallyState(in) ==
    [ball |-> in.ball,
     paddles |-> [left  |-> [y |-> in.left, playerId |-> 1],
                  right |-> [y |-> in.right, playerId |-> 2]],
     score |-> in.score,
     gameActive |-> TRUE,
     players |-> <<1, 2>>]

RallyRoom(in) == [id |-> "room1", gameState |-> RallyState(in), gameLoop |-> 1]

\* the tick that led to the state has broadcast it to the two players
InitRally ==
    /\ \E in \in RallyInputs :
          /\ heap = <<RallyRoom(in)>>
          /\ emitted = <<Msg("gameState", {1, 2}, RallyState(in))>>
    /\ rooms = [r \in RoomIds |-> 1]
    /\ playerRooms = <<"room1", "room1">>
    /\ timers = {[handle |-> 1, roomId |-> "room1", room |-> 1]}
    /\ ioRooms = [r \in RoomIds |-> {1, 2}]
    /\ last = Event("tick", "room1")

SpecRally == InitRally /\ [][Next]_vars

\* ---- updateBall as a function
\* updateBall(gameState) applied once to an argument drawn from a grid of
\* GameState values around the right paddle's plane and around the ball of
\* the worked example (x = 395, y = 200, dx = 4, dy = 4, right paddle
\* spanning [160, 240]).  The grid is a set of arguments of the function, not
\* of states of a match: a served ball keeps x a multiple of BALL_SPEED away
\* from the centre line, so no tick of the server is handed x = 395.
ExampleInput == Input(395, 200, 4, 4, 160, 160, 0, 0)

BallInputs ==
    { Input(x, y, 4, dy, 160, r, 0, 0) :
         x \in {395, 399, 772, 776, 796, 800}, y \in {156, 196, 236, 244, 388},
         dy \in {4, -4}, r \in {160, 200, 320} } \cup {ExampleInput}

\* the argument, before the call
Argument == Event("argument", NoRoom)
\* the GameState updateBall has returned from
Returned == Event("updateBall", NoRoom)

InitUpdateBall ==
    /\ \E in \in BallInputs :
          heap = <<[id |-> "room1", gameState |-> RallyState(in),
                    gameLoop |-> Undefined]>>
    /\ rooms = [r \in {} |-> 0]
    /\ playerRooms = <<>>
    /\ timers = {}
    /\ ioRooms = [r \in RoomIds |-> {}]
    /\ emitted = <<>>
    /\ last = Argument

UpdateBall ==
    /\ last = Argument
    /\ \E rx, ry \in (IF Scores(heap[1].gameState) THEN BOOLEAN ELSE {TRUE}) :
          heap' = [heap EXCEPT ![1].gameState = updateBall(@, rx, ry)]
    /\ last' = Returned
    /\ UNCHANGED <<rooms, playerRooms, timers, ioRooms, emitted>>

SpecUpdateBall == InitUpdateBall /\ [][UpdateBall]_vars

\* ---- Type correctness
TypeOK ==
    /\ DOMAIN rooms \subseteq RoomIds
    /\ DOMAIN heap \subseteq ObjIds
    /\ \A r \in DOMAIN rooms : rooms[r] \in DOMAIN heap
    /\ DOMAIN playerRooms \subseteq Conns
    /\ \A t \in timers : t.handle \in Handles /\ t.room \in DOMAIN heap

\* ---- Observations used by the properties
RoomExists(r) == r \in DOMAIN rooms
GameStateOf(r) == heap[rooms[r]].gameState
LeftOwner(r) == IF RoomExists(r) THEN GameStateOf(r).paddles.left.playerId ELSE Null
RightOwner(r) == IF RoomExists(r) THEN GameStateOf(r).paddles.right.playerId ELSE Null
PlayersOf(r) == IF RoomExists(r) THEN GameStateOf(r).players ELSE <<>>
BothOwned(r) == LeftOwner(r) # Null /\ RightOwner(r) # Null
IsActive(r) == RoomExists(r) /\ GameStateOf(r).gameActive
\* an interval is ticking for room r
LoopRunning(r) == \E t \in timers : t.roomId = r
\* the messages of the latest handler that carry this event
Sent(event) == {i \in DOMAIN emitted : emitted[i].event = event}
\* the socket the latest joinGame answered: its gameState goes out last
Joiner == IF emitted = <<>> THEN {} ELSE emitted[Len(emitted)].to

\* C1: in every reachable state of an existing room, gameActive is true if
\* and only if both paddle slots are owned.
C1_ActiveIffBothPaddlesOwned ==
    \A r \in RoomIds : RoomExists(r) => (GameStateOf(r).gameActive <=> BothOwned(r))

\* C2: a joinGame that fills the second paddle slot (both slots owned after
\* it, at most one owned before it) starts the tick loop, sets gameActive and
\* broadcasts gameStart to the room.
C2_SecondSlotJoinStartsGame ==
    [][\A c \in Conns, r \in RoomIds :
          (JoinGame(c) /\ ~BothOwned(r) /\ BothOwned(r)')
          => /\ IsActive(r)'
             /\ LoopRunning(r)'
             /\ \E i \in Sent("gameStart")' : emitted'[i].to = ioRooms'[r]]_vars

\* C3: every interval that can fire belongs to a room that is in the registry
\* with gameActive = true and holds that interval as its gameLoop: no tick
\* fires for a room a disconnect has paused or destroyed.
C3_NoTickAfterStop ==
    \A t \in timers :
        /\ RoomExists(t.roomId)
        /\ rooms[t.roomId] = t.room
        /\ heap[t.room].gameLoop = t.handle
        /\ heap[t.room].gameState.gameActive

\* a disconnect has paused a room whose loop had been running (the ball has
\* left the centre), and no interval is left
C3_Witness ==
    /\ last.event = "disconnect"
    /\ Sent("playerDisconnected") # {}
    /\ \E r \in RoomIds :
          /\ RoomExists(r)
          /\ ~GameStateOf(r).gameActive
          /\ BallTravel(GameStateOf(r)) > 0
          /\ ~LoopRunning(r)

\* C4: after every handler a room is in the registry exactly when a
\* connection is joined to it, a registered room's players list is never
\* empty, and a room that is gone has no tick loop.
C4_RoomGarbageCollection ==
    \A r \in RoomIds :
        /\ RoomExists(r) <=> ioRooms[r] # {}
        /\ RoomExists(r) => GameStateOf(r).players # <<>>
        /\ ~RoomExists(r) => ~LoopRunning(r)

\* the last connection of room1 has just left: registry, heap and timers
\* are empty
C4_Witness ==
    /\ last = Event("disconnect", "room1")
    /\ DOMAIN rooms = {}
    /\ ioRooms["room1"] = {}
    /\ DOMAIN heap = {}
    /\ timers = {}

\* C5: playerRooms[c] = r exactly when room r exists and c is one of its
\* players.
C5_ReverseIndexConsistent ==
    \A c \in Conns, r \in RoomIds :
        (c \in DOMAIN playerRooms /\ playerRooms[c] = r)
        <=> (RoomExists(r) /\ c \in Range(GameStateOf(r).players))

\* a player's disconnect has removed its entry and left another's in place
C5_Witness ==
    /\ last = Event("disconnect", "room1")
    /\ Sent("playerDisconnected") # {}
    /\ \E c \in Conns : c \in DOMAIN playerRooms /\ c \in Range(PlayersOf(playerRooms[c]))
    /\ \E c \in Conns : c \notin DOMAIN playerRooms

\* C6: a joinGame from a socket that is already a player of the room changes
\* nothing (GameState, reverse index, tick loop) and emits neither
\* paddleAssignment nor gameStart.
C6_DuplicateJoinIsNoOp ==
    [][\A c \in Conns, r \in RoomIds :
          (JoinGame(c) /\ c \in Range(PlayersOf(r)))
          => /\ heap' = heap
             /\ rooms' = rooms
             /\ playerRooms' = playerRooms
             /\ timers' = timers
             /\ Sent("paddleAssignment")' = {}
             /\ Sent("gameStart")' = {}]_vars

\* C7: whenever both paddle slots are owned they are owned by two different
\* connections.
C7_PaddleSlotExclusivity ==
    \A r \in RoomIds : BothOwned(r) => LeftOwner(r) # RightOwner(r)

\* C8: a joinGame by a socket that is not yet a player appends it to players
\* and gives it left if left is free, else right if right is free, else no
\* paddle; paddleAssignment goes to the joiner only, and only with a slot.
C8_JoinAssignment ==
    [][\A c \in Conns, r \in RoomIds :
          (JoinGame(c) /\ c \notin Range(PlayersOf(r)))
          => /\ PlayersOf(r)' = Append(PlayersOf(r), c)
             /\ \A i \in Sent("paddleAssignment")' : emitted'[i].to = {c}
             /\ IF LeftOwner(r) = Null
                THEN /\ LeftOwner(r)' = c
                     /\ RightOwner(r)' = RightOwner(r)
                     /\ \E i \in Sent("paddleAssignment")' :
                           /\ emitted'[i].data = "left"
                           /\ Sent("paddleAssignment")' = {i}
                ELSE IF RightOwner(r) = Null
                THEN /\ RightOwner(r)' = c
                     /\ LeftOwner(r)' = LeftOwner(r)
                     /\ \E i \in Sent("paddleAssignment")' :
                           /\ emitted'[i].data = "right"
                           /\ Sent("paddleAssignment")' = {i}
                ELSE /\ LeftOwner(r)' = LeftOwner(r)
                     /\ RightOwner(r)' = RightOwner(r)
                     /\ Sent("paddleAssignment")' = {}]_vars

\* a joiner found both slots filled: it is a player, owns no paddle and got
\* no paddleAssignment
C8_Witness ==
    /\ last.event = "joinGame"
    /\ Sent("paddleAssignment") = {}
    /\ \E c \in Joiner, r \in RoomIds :
          /\ c \in Range(PlayersOf(r))
          /\ BothOwned(r)
          /\ LeftOwner(r) # c
          /\ RightOwner(r) # c

\* what a disconnect of paddle owner c leaves of room r's state
DisconnectFrame(c, r) ==
    /\ RoomExists(r)'
    /\ ~GameStateOf(r)'.gameActive
    /\ ~LoopRunning(r)'
    /\ heap'[rooms'[r]].gameLoop = Undefined
    /\ LeftOwner(r)' = (IF LeftOwner(r) = c THEN Null ELSE LeftOwner(r))
    /\ RightOwner(r)' = (IF RightOwner(r) = c THEN Null ELSE RightOwner(r))
    /\ \E i \in Sent("playerDisconnected")' :
          /\ Sent("playerDisconnected")' = {i}
          /\ emitted'[i].to = Range(PlayersOf(r)') 
    /\ GameStateOf(r)'.paddles.left.y = GameStateOf(r).paddles.left.y
    /\ GameStateOf(r)'.paddles.right.y = GameStateOf(r).paddles.right.y
    /\ GameStateOf(r)'.score = GameStateOf(r).score
    /\ GameStateOf(r)'.ball = GameStateOf(r).ball

\* C9: when a paddle owner disconnects during an Active game the room goes to
\* Waiting (gameActive false, loop stopped), the owner's slot is vacated,
\* playerDisconnected goes to the remaining members, and the other paddle's
\* owner and offset, the scores and the ball are unchanged.
C9_OwnerDisconnectPausesGame ==
    [][\A c \in Conns, r \in RoomIds :
          (Disconnect(c) /\ IsActive(r) /\ c \in {LeftOwner(r), RightOwner(r)})
          => DisconnectFrame(c, r)]_vars

\* The same statement for an owner who is not the room's only player: it
\* holds, so C9 fails only where one socket fills the whole players list.
OwnerDisconnectWithOthersPausesGame ==
    [][\A c \in Conns, r \in RoomIds :
          (Disconnect(c) /\ IsActive(r) /\ c \in {LeftOwner(r), RightOwner(r)}
           /\ Range(PlayersOf(r)) # {c})
          => DisconnectFrame(c, r)]_vars

\* C10: playerDisconnected is broadcast only by a disconnect that takes the
\* room from Active to Waiting, and exactly once by each such disconnect; a
\* disconnect that finds the room Waiting and leaves it non-empty emits none.
C10_PlayerDisconnectedOnlyOnPause ==
    [][\A c \in Conns, r \in RoomIds :
          Disconnect(c)
          => LET paused == IsActive(r) /\ RoomExists(r)' /\ ~IsActive(r)'
             IN Cardinality(Sent("playerDisconnected")') = (IF paused THEN 1 ELSE 0)]_vars

\* the upper end of a paddle's range
PaddleMax == GAME_HEIGHT - PADDLE_HEIGHT

\* the paddleUpdate messages of the latest handler
PaddleUpdates == {emitted[i].data : i \in Sent("paddleUpdate")}

\* C11: in every reachable state both paddles' offsets lie in
\* [0, GAME_HEIGHT - PADDLE_HEIGHT] = [0, 320], whatever joinGame,
\* paddleMove, disconnect and tick events came before.
C11_BoundedPaddle ==
    \A o \in DOMAIN heap :
        /\ 0 <= heap[o].gameState.paddles.left.y
        /\ heap[o].gameState.paddles.left.y <= PaddleMax
        /\ 0 <= heap[o].gameState.paddles.right.y
        /\ heap[o].gameState.paddles.right.y <= PaddleMax

\* a paddleMove has just left the left paddle on the lower end of its range
\* and the right paddle stands on the upper end
C11_Witness ==
    /\ last = Event("paddleMove", "room1")
    /\ [side |-> "left", y |-> PaddleMax] \in PaddleUpdates
    /\ GameStateOf("room1").paddles.left.y = PaddleMax
    /\ GameStateOf("room1").paddles.right.y = 0

\* where this tick's move takes the ball: past the left or the right goal line
OutLeft(gameState) == gameState.ball.x + gameState.ball.dx < 0
OutRight(gameState) == gameState.ball.x + gameState.ball.dx > GAME_WIDTH

\* the Room object o is ticked by this step
Ticked(o) == \E t \in timers : t.room = o /\ Tick(t)

\* C12: a room's scores never decrease; only a tick changes them: a tick
\* that moves the ball out of bounds adds exactly 1 to exactly one score
\* (x < 0: the right side's, x > GAME_WIDTH: the left side's), and every
\* other tick and every other event leaves both scores as they were.
C12_ScoreMonotonicity ==
    [][\A o \in DOMAIN heap \cap DOMAIN heap' :
          LET g  == heap[o].gameState
              g2 == heap'[o].gameState
          IN /\ g2.score.left >= g.score.left
             /\ g2.score.right >= g.score.right
             /\ IF Ticked(o) /\ OutLeft(g)
                THEN g2.score = [left |-> g.score.left, right |-> g.score.right + 1]
                ELSE IF Ticked(o) /\ OutRight(g)
                THEN g2.score = [left |-> g.score.left + 1, right |-> g.score.right]
                ELSE g2.score = g.score]_vars

\* a tick has just scored for the left side: the ball is served again
C12_Witness ==
    /\ last = Event("tick", "room1")
    /\ GameStateOf("room1").score = [left |-> 1, right |-> 0]
    /\ GameStateOf("room1").ball.x = GAME_WIDTH \div 2
    /\ GameStateOf("room1").ball.y = FInt(GAME_HEIGHT \div 2)

\* the ball as resetBall and createGameState leave it
Served(ball) ==
    /\ ball.x = GAME_WIDTH \div 2
    /\ ball.y = FInt(GAME_HEIGHT \div 2)
    /\ Abs(ball.dx) = BALL_SPEED
    /\ ball.dy \in {FInt(BALL_SPEED), FInt(-BALL_SPEED)}

\* C13: after every ball reset, the one of room creation and the one of a
\* scoring tick, the ball is at x = GAME_WIDTH / 2, y = GAME_HEIGHT / 2 with
\* |dx| = |dy| = BALL_SPEED.
C13_ResetInvariant ==
    [][/\ \A c \in Conns, r \in RoomIds :
             (JoinGame(c) /\ ~RoomExists(r)) => Served(GameStateOf(r)'.ball)
       /\ \A o \in DOMAIN heap :
             (Ticked(o) /\ (OutLeft(heap[o].gameState) \/ OutRight(heap[o].gameState)))
             => Served(heap'[o].gameState.ball)]_vars

\* the ball that came off the bottom wall at dy = -3 has passed the left
\* paddle (at 80): a tick has scored for the right side and served again
C13_Witness ==
    /\ last = Event("tick", "room1")
    /\ GameStateOf("room1").score = [left |-> 0, right |-> 1]
    /\ GameStateOf("room1").paddles.left.y = 80
    /\ Served(GameStateOf("room1").ball)

\* updateBall is applied to the ball and the right paddle of the worked example
AtExample(gameState) ==
    /\ gameState.ball = ExampleInput.ball
    /\ gameState.paddles.right.y = ExampleInput.right

\* the x from which on the ball touches the right paddle's plane
RightPlane == GAME_WIDTH - PADDLE_WIDTH - BALL_SIZE

\* C14 as stated: one tick from ball x = 395, y = 200, dx = 4, dy = 4 with the
\* right paddle spanning [160, 240] collides with the right paddle and
\* yields dx = -4 and dy = 0.
C14_RightPaddleCollisionScenario ==
    [][(UpdateBall /\ AtExample(heap[1].gameState))
       => /\ heap'[1].gameState.ball.dx = -BALL_SPEED
          /\ heap'[1].gameState.ball.dy = FZero]_vars

\* C14 amended: one tick from ball x = 395, y = 200, dx = 4, dy = 4 with the
\* right paddle spanning [160, 240] moves the ball to x = 399, y = 204 and
\* is no collision: dx = 4 and dy = 4 stay.  For a ball that moves right and
\* ends its move right of the left paddle's plane (x > 10), the right paddle
\* is hit exactly when the move ends at x >= GAME_WIDTH - PADDLE_WIDTH -
\* BALL_SIZE = 780 with the moved y within the paddle's span
\* [paddle.y, paddle.y + PADDLE_HEIGHT].  While the move ends at x <= 800:
\* without a hit dx stays and dy is what the wall test left (dy, or -dy on a
\* wall); a hit gives dx = -4 and dy = (hitPos - 0.5) * BALL_SPEED * 2 with
\* hitPos = (y - paddle.y) / PADDLE_HEIGHT, which is dy = 0 for a ball moved
\* to y = 200 on the paddle at 160.  A move that ends at x > 800 scores for
\* the left side, hit or not, and the ball is served again from the centre
\* with |dx| = |dy| = BALL_SPEED.
C14_RightPaddleCollisionAtPlane ==
    [][LET g == heap[1].gameState
           g2 == heap'[1].gameState
           b == g.ball
           b2 == g2.ball
           x == b.x + b.dx
           y == FAdd(b.y, b.dy)
           top == g.paddles.right.y
           hit == /\ x >= RightPlane
                  /\ FGe(y, FInt(top))
                  /\ FLe(y, FInt(top + PADDLE_HEIGHT))
           wall == FLe(y, FZero) \/ FGe(y, FInt(GAME_HEIGHT - BALL_SIZE))
           hitPos == FOver(FSub(y, FInt(top)), PADDLE_HEIGHT)
       IN (UpdateBall /\ b.dx > 0 /\ x > PADDLE_WIDTH)
          => /\ AtExample(g)
                => b2 = [x |-> 399, y |-> FInt(204), dx |-> BALL_SPEED,
                         dy |-> FInt(BALL_SPEED)]
             /\ (x <= GAME_WIDTH /\ ~hit)
                => /\ b2 = [x |-> x, y |-> y, dx |-> b.dx,
                            dy |-> IF wall THEN FNeg(b.dy) ELSE b.dy]
                   /\ g2.score = g.score
             /\ (x <= GAME_WIDTH /\ hit)
                => /\ b2 = [x |-> x, y |-> y, dx |-> -BALL_SPEED,
                            dy |-> FTimes(FSub(hitPos, FHalf), BALL_SPEED * 2)]
                   /\ (y = FInt(200) /\ top = 160) => b2.dy = FZero
                   /\ g2.score = g.score
             /\ x > GAME_WIDTH
                => /\ Served(b2)
                   /\ g2.score = [g.score EXCEPT !.left = @ + 1]]_vars

\* updateBall has returned from the example's argument: the ball is at
\* x = 399, y = 204 and still moves (+4, +4)
C14_Witness ==
    /\ last = Returned
    /\ heap[1].gameState.ball
          = [x |-> 399, y |-> FInt(204), dx |-> BALL_SPEED, dy |-> FInt(BALL_SPEED)]
    /\ heap[1].gameState.paddles.right.y = 160

\* the collision of the amended statement happens: the ball has come to
\* x = 800, y = 200 on the right paddle at 160 and leaves with dx = -4, dy = 0
RightPaddleHitReached ==
    /\ last = Returned
    /\ heap[1].gameState.ball.x = GAME_WIDTH
    /\ heap[1].gameState.ball.y = FInt(200)
    /\ heap[1].gameState.ball.dx = -BALL_SPEED
    /\ heap[1].gameState.ball.dy = FZero

\* the server's maps, rooms and timers are what they were and the handler
\* has emitted nothing
NoEffect ==
    /\ heap' = heap
    /\ rooms' = rooms
    /\ playerRooms' = playerRooms
    /\ timers' = timers
    /\ ioRooms' = ioRooms
    /\ emitted' = <<>>

\* C15: a paddleMove from a socket that owns no paddle, be it a member
\* without a paddle or a socket in no room, changes no GameState and emits no
\* paddleUpdate.
C15_NonOwnerPaddleMoveIsNoOp ==
    [][\A c \in Conns, d \in Directions :
          (PaddleMove(c, d) /\ \A r \in RoomIds : c \notin {LeftOwner(r), RightOwner(r)})
          => NoEffect]_vars

\* a member of room1 that owns neither paddle has sent paddleMove while both
\* paddles were owned by others: nothing was emitted
C15_Witness ==
    /\ last = Event("paddleMove", "room1")
    /\ emitted = <<>>
    /\ BothOwned("room1")
    /\ \E c \in Range(PlayersOf("room1")) : c \notin {LeftOwner("room1"), RightOwner("room1")}

\* C16: a disconnect of a connection without an entry in the reverse index
\* changes nothing in the server's state and emits nothing.
C16_UnregisteredDisconnectIsNoOp ==
    [][\A c \in Conns :
          (Disconnect(c) /\ c \notin DOMAIN playerRooms) => NoEffect]_vars

\* a socket that never joined has disconnected while room1 had a running
\* match: the match is still running
C16_Witness ==
    /\ last = Event("disconnect", NoRoom)
    /\ emitted = <<>>
    /\ IsActive("room1")
    /\ LoopRunning("room1")

\* the paddle a paddleMove of socket c moves in room r: the left one if c
\* owns it, else the right one if c owns that, else "none"
MovedSide(c, r) ==
    IF LeftOwner(r) = c THEN "left" ELSE IF RightOwner(r) = c THEN "right" ELSE "none"

OtherSide(side) == IF side = "left" THEN "right" ELSE "left"

\* C17: a paddleMove from the owner of a paddle, in a Waiting as in an Active
\* room, sets that paddle's offset to max(0, y - PADDLE_SPEED) for "up" and
\* to min(GAME_HEIGHT - PADDLE_HEIGHT, y + PADDLE_SPEED) for "down",
\* broadcasts one paddleUpdate with the side and the new offset to the room,
\* and leaves the other paddle, the ball, the scores and the room's phase as
\* they were.
C17_OwnerPaddleMove ==
    [][\A c \in Conns, d \in {"up", "down"}, r \in RoomIds :
          (PaddleMove(c, d) /\ MovedSide(c, r) # "none")
          => LET side == MovedSide(c, r)
                 g  == GameStateOf(r)
                 y  == g.paddles[side].y
                 y2 == IF d = "up" THEN Max(0, y - PADDLE_SPEED)
                       ELSE Min(PaddleMax, y + PADDLE_SPEED)
             IN /\ RoomExists(r)'
                /\ GameStateOf(r)' = [g EXCEPT !.paddles[side].y = y2]
                /\ emitted' = <<Msg("paddleUpdate", ioRooms[r],
                                    [side |-> side, y |-> y2])>>
                /\ heap'[rooms'[r]].gameLoop = heap[rooms[r]].gameLoop
                /\ rooms' = rooms
                /\ playerRooms' = playerRooms
                /\ timers' = timers
                /\ ioRooms' = ioRooms]_vars

\* the owner of the right paddle has sent paddleMove in a Waiting room with
\* its paddle on the upper end of the range: paddleUpdate carries offset 0
C17_Witness ==
    /\ last = Event("paddleMove", "room1")
    /\ PaddleUpdates = {[side |-> "right", y |-> 0]}
    /\ GameStateOf("room1").paddles.right.y = 0
    /\ ~IsActive("room1")
    /\ GameStateOf("room1").score.right = 1

\* the ball overlaps the top or the bottom wall: the test of the wall bounce
OnWall(ball) == FLe(ball.y, FZero) \/ FGe(ball.y, FInt(GAME_HEIGHT - BALL_SIZE))

\* C18: the ball's y stays within [-BALL_SPEED, GAME_HEIGHT - BALL_SIZE +
\* BALL_SPEED] = [-4, 394] after any number of ticks with any paddle
\* positions.  (The claim goes on: the ball does not stay at y <= 0 or
\* y >= 390 tick after tick for ever; WallOverlapEndsWithNextTick is that
\* half in the form a finite run can refute.)
C18_WallOverlapBound ==
    \A o \in DOMAIN heap :
        LET ball == heap[o].gameState.ball
        IN /\ FGe(ball.y, FInt(-BALL_SPEED))
           /\ FLe(ball.y, FInt(GAME_HEIGHT - BALL_SIZE + BALL_SPEED))

\* a ball that overlaps a wall after one tick is off the wall after the next
WallOverlapEndsWithNextTick ==
    [][\A o \in DOMAIN heap :
          (Ticked(o) /\ OnWall(heap[o].gameState.ball))
          => ~OnWall(heap'[o].gameState.ball)]_vars

\* the paddles' offset in a new room
PaddleStart == GAME_HEIGHT \div 2 - PADDLE_HEIGHT \div 2

\* C19: a joinGame for a room identifier whose room was destroyed gets a new
\* room in createGameState's initial state (scores 0-0, ball served from the
\* centre, paddles at 160, not active, no tick loop) with the joiner as its
\* only member and owner of the left paddle; nothing of the earlier room is
\* carried over.
C19_FreshRoomOnReuse ==
    [][\A c \in Conns, r \in RoomIds :
          (JoinGame(c) /\ ~RoomExists(r))
          => /\ RoomExists(r)'
             /\ Served(GameStateOf(r)'.ball)
             /\ GameStateOf(r)'.paddles
                   = [left  |-> [y |-> PaddleStart, playerId |-> c],
                      right |-> [y |-> PaddleStart, playerId |-> Null]]
             /\ GameStateOf(r)'.score = [left |-> 0, right |-> 0]
             /\ ~GameStateOf(r)'.gameActive
             /\ GameStateOf(r)'.players = <<c>>
             /\ heap'[rooms'[r]].gameLoop = Undefined
             /\ ~LoopRunning(r)'
             /\ DOMAIN heap' = {rooms'[r]}
             /\ playerRooms' = MapSet(playerRooms, c, r)
             /\ ioRooms'[r] = {c}]_vars

\* The matches of SpecRally all start in a room with two members and a
\* running loop, so a room whose only member has just joined took the place
\* of one that was destroyed.
C19_Witness ==
    /\ last = Event("joinGame", "room1")
    /\ Len(PlayersOf("room1")) = 1
    /\ Joiner = {LeftOwner("room1")}
    /\ GameStateOf("room1").score = [left |-> 0, right |-> 0]
    /\ ~LoopRunning("room1")

\* the intervals that tick for room r
LoopsOf(r) == {t \in timers : t.roomId = r}

\* joinGame calls startGameLoop exactly when the push makes players.length 2
StartsLoop(c, r) == JoinGame(c) /\ Len(PlayersOf(r)) = 1

\* C20: startGameLoop is never called for a room whose gameLoop is set, so
\* a room never has more than one tick loop.
C20_AtMostOneLoopPerRoom ==
    [][\A r \in RoomIds :
          /\ \A c \in Conns :
                StartsLoop(c, r)
                => (heap[rooms[r]].gameLoop = Undefined /\ LoopsOf(r) = {})
          /\ Cardinality(LoopsOf(r)') <= 1]_vars

\* a joinGame has started the loop again for a room whose earlier loop a
\* disconnect had stopped after the ball had left the centre: one loop runs
C20_Witness ==
    /\ last = Event("joinGame", "room1")
    /\ Sent("gameStart") # {}
    /\ BallTravel(GameStateOf("room1")) > 0
    /\ Cardinality(LoopsOf("room1")) = 1

====
